---------------------------- MODULE Spec2Model ----------------------------
(***************************************************************************)
(* Model of pylon's Traefik route registrar                                *)
(* (pylon/core/tools/traefik.py) and of the part of pylon/main.py that     *)
(* calls it.                                                               *)
(*                                                                         *)
(* Python values are modelled as follows.                                  *)
(*   - a str is a sequence of tokens; an f-string is the concatenation of  *)
(*     its pieces, so two different configurations can format to the same  *)
(*     key exactly when the Python strings would be equal;                 *)
(*   - an optional dict entry is a set: {} when the key is absent, {v}     *)
(*     when it maps to v.  A dict is a record of such entries, and it is   *)
(*     falsy ("not d") exactly when every entry is absent;                 *)
(*   - the Redis store is a function from keys to values;                  *)
(*   - a KV command that raises has no effect on the store.                *)
(***************************************************************************)
EXTENDS Integers, Sequences, FiniteSets, TLC

VARIABLES
    context,   \* the Context object: debug, settings, node_name, traefik_redis_keys
    environ,   \* os.environ["WERKZEUG_RUN_MAIN"]: {} when unset, {s} when set to s
    store,     \* content of the Redis KV store: key -> value
    last,      \* observation of the latest registrar call
    prev,      \* observation of the call before it
    ncalls,    \* number of registrar calls made so far
    pc,        \* position of main(); "api" when the functions are called directly
    trace      \* lifecycle steps main() has executed, in order

vars == <<context, environ, store, last, prev, ncalls, pc, trace>>

---------------------------------------------------------------------------
(* Bounds *)

MaxCalls == 2

---------------------------------------------------------------------------
(* Python values *)

None == {}
Some(v) == {v}
Val(o) == CHOOSE v \in o : TRUE

Str(s) == <<s>>

\* dict.get(k, default) on an optional entry
Get(entry, default) == IF entry = None THEN default ELSE Val(entry)

---------------------------------------------------------------------------
(* Configurations *)

\* constants.SERVER_DEFAULT_PORT, formatted
SERVER_DEFAULT_PORT == Str("SERVER_DEFAULT_PORT")

\* socket.gethostname()
gethostname == Str("pylon-host")

EmptyRedis == [host |-> None, password |-> None]
RedisAt(h) == [host |-> Some(h), password |-> None]

EmptyTraefik ==
    [redis |-> None, rootkey |-> None, rule |-> None, entrypoint |-> None,
     node_url |-> None, node_hostname |-> None]

EmptyServer == [port |-> None, name |-> None]

WithRedis == [EmptyTraefik EXCEPT !.redis = Some(RedisAt(Str("redis")))]

Named == [EmptyServer EXCEPT !.name = Some(Str("n1"))]

\* context.settings: the "traefik" and "server" entries of the settings dict.
\* The first four lack the proxy section or the KV section; the last four
\* have both, with two root keys, two node names and two service urls.
Settings ==
    { [traefik |-> None, server |-> Some(Named)],
      [traefik |-> Some(EmptyTraefik), server |-> Some(Named)],
      [traefik |-> Some([EmptyTraefik EXCEPT !.rootkey = Some(Str("t2"))]),
       server |-> Some(Named)],
      [traefik |-> Some([EmptyTraefik EXCEPT !.redis = Some(EmptyRedis)]),
       server |-> Some(Named)],
      [traefik |-> Some(WithRedis), server |-> Some(Named)],
      [traefik |-> Some(WithRedis), server |-> None],
      [traefik |-> Some([WithRedis EXCEPT
                            !.node_hostname = Some(Str("pylon.example"))]),
       server |-> Some([Named EXCEPT !.port = Some(Str("8080"))])],
      [traefik |-> Some([WithRedis EXCEPT
                            !.rootkey = Some(Str("t2")),
                            !.rule = Some(Str("Host(pylon)")),
                            !.entrypoint = Some(Str("websecure")),
                            !.node_url = Some(Str("https://pylon.example/")),
                            !.node_hostname = Some(Str("pylon.example"))]),
       server |-> Some([Named EXCEPT !.port = Some(Str("8080"))])] }

Environs == { None, Some(Str("true")), Some(Str("false")) }

\* main.py line 82: context.node_name
NodeName(settings) == Get(Get(settings.server, EmptyServer).name, gethostname)

\* What a call reads from its context argument and from the environment.
Inputs ==
    { [debug |-> d, settings |-> s, node_name |-> NodeName(s), env |-> e] :
        d \in BOOLEAN, s \in Settings, e \in Environs }

---------------------------------------------------------------------------
(* The store *)

EmptyStore == [k \in {} |-> <<>>]

StoreSet(s, k, v) == [x \in (DOMAIN s) \cup {k} |-> IF x = k THEN v ELSE s[x]]

StoreDelete(s, k) == [x \in (DOMAIN s) \ {k} |-> s[x]]

\* One KV command as issued by a call, and whether it returned (ok) or raised.
Cmd(c, k, v, ok) == [cmd |-> c, key |-> k, value |-> v, ok |-> ok]

---------------------------------------------------------------------------
(* register_traefik_route *)

\* Variant of FreshKeys: line 34 left out, the old list is kept.
KeptKeys(old) == old

\* Line 34: the key list is replaced by a fresh list before any guard.
FreshKeys(old) == <<>>

\* Variant of DevelopmentSkip: the marker compared with == instead of !=.
DevelopmentSkipInChild(in) == in.debug /\ in.env = Some(Str("true"))

\* Lines 36 and 89: development mode, and not the reloader's child process.
DevelopmentSkip(in) == in.debug /\ in.env # Some(Str("true"))

\* context.settings.get("traefik", dict()), lines 40 and 93
traefik_config(in) == Get(in.settings.traefik, EmptyTraefik)

\* traefik_config.get("redis", dict()), lines 45 and 98
redis_config(in) == Get(traefik_config(in).redis, EmptyRedis)

\* Variant of Falsy: the guard written "d is None", which a dict never is.
IsNone(d) == FALSE

\* "not d" for a dict d
Falsy(d) == \A k \in DOMAIN d : d[k] = None

\* Line 51
local_port(in) ==
    Get(Get(in.settings.server, EmptyServer).port, SERVER_DEFAULT_PORT)

\* Variant of node_url: node_hostname looked up before node_url.
NodeUrlHostnameFirst(in) ==
    IF traefik_config(in).node_hostname # None
    THEN Str("http://") \o Val(traefik_config(in).node_hostname)
         \o Str(":") \o local_port(in)
    ELSE IF traefik_config(in).node_url # None
    THEN Val(traefik_config(in).node_url)
    ELSE Str("http://") \o gethostname \o Str(":") \o local_port(in)

\* Lines 55-60
node_url(in) ==
    IF traefik_config(in).node_url # None
    THEN Val(traefik_config(in).node_url)
    ELSE IF traefik_config(in).node_hostname # None
    THEN Str("http://") \o Val(traefik_config(in).node_hostname)
         \o Str(":") \o local_port(in)
    ELSE Str("http://") \o gethostname \o Str(":") \o local_port(in)

\* Lines 64-67 and 105-108: the client is built; no command is sent yet.
OpenStore(in) ==
    Cmd("StrictRedis", Get(redis_config(in).host, Str("localhost")), <<>>, TRUE)

\* Lines 69-71
traefik_rootkey(in) == Get(traefik_config(in).rootkey, Str("traefik"))
traefik_rule(in) == Get(traefik_config(in).rule, Str("PathPrefix(/)"))
traefik_entrypoint(in) == Get(traefik_config(in).entrypoint, Str("http"))

\* Variant of RouterKey: "services" written for "routers".
RouterKeyUnderServices(in, leaf) ==
    traefik_rootkey(in) \o Str("/http/services/") \o in.node_name \o leaf

RouterKey(in, leaf) ==
    traefik_rootkey(in) \o Str("/http/routers/") \o in.node_name \o leaf

ServiceKey(in) ==
    traefik_rootkey(in) \o Str("/http/services/") \o in.node_name
    \o Str("/loadbalancer/servers/0/url")

\* Lines 73-76: the four store.set calls, in order, as <<key, value>>
RouteWrites(in) ==
    << <<RouterKey(in, Str("/rule")), traefik_rule(in)>>,
       <<RouterKey(in, Str("/entrypoints/0")), traefik_entrypoint(in)>>,
       <<RouterKey(in, Str("/service")), in.node_name>>,
       <<ServiceKey(in), node_url(in)>> >>

\* Variant of RouteKeys: the append of the service url key left out.
RouteKeysWithoutUrl(in) ==
    << RouterKey(in, Str("/rule")),
       RouterKey(in, Str("/entrypoints/0")),
       RouterKey(in, Str("/service")) >>

\* Variant of RouteKeys: the appends of lines 79 and 80 exchanged.
RouteKeysExchanged(in) ==
    << RouterKey(in, Str("/rule")),
       RouterKey(in, Str("/service")),
       RouterKey(in, Str("/entrypoints/0")),
       ServiceKey(in) >>

\* Lines 78-83: the four appends, in order
RouteKeys(in) ==
    << RouterKey(in, Str("/rule")),
       RouterKey(in, Str("/entrypoints/0")),
       RouterKey(in, Str("/service")),
       ServiceKey(in) >>

\* Variant of DoWrites: the exception of a store.set is caught and the
\* remaining writes go on.
RECURSIVE DoWritesCaught(_, _, _, _, _)
DoWritesCaught(writes, i, failAt, s, ops) ==
    IF i > Len(writes) THEN [store |-> s, ops |-> ops, raised |-> FALSE]
    ELSE IF i = failAt
    THEN DoWritesCaught(writes, i + 1, failAt, s,
                        Append(ops, Cmd("set", writes[i][1], writes[i][2], FALSE)))
    ELSE DoWritesCaught(writes, i + 1, failAt,
                        StoreSet(s, writes[i][1], writes[i][2]),
                        Append(ops, Cmd("set", writes[i][1], writes[i][2], TRUE)))

\* Lines 73-76 with the failAt-th store.set raising (0: none raises):
\* the store and the commands issued after the first i writes were tried.
RECURSIVE DoWrites(_, _, _, _, _)
DoWrites(writes, i, failAt, s, ops) ==
    IF i > Len(writes) THEN [store |-> s, ops |-> ops, raised |-> FALSE]
    ELSE IF i = failAt
    THEN [store |-> s,
          ops |-> Append(ops, Cmd("set", writes[i][1], writes[i][2], FALSE)),
          raised |-> TRUE]
    ELSE DoWrites(writes, i + 1, failAt,
                  StoreSet(s, writes[i][1], writes[i][2]),
                  Append(ops, Cmd("set", writes[i][1], writes[i][2], TRUE)))

\* Variant of KeysAfterWrites: the appends placed before the writes, so
\* that they run whether or not a write raises.
KeysAppendedFirst(keys, in, raised) == keys \o RouteKeys(in)

\* Lines 78-83 run only when none of lines 73-76 raised.
KeysAfterWrites(keys, in, raised) ==
    IF raised THEN keys ELSE keys \o RouteKeys(in)

\* The whole of register_traefik_route(context): the observation of the call
\* with the key list and the store it leaves.
RegisterResult(in, keys0, s, failAt) ==
    LET keys == FreshKeys(keys0)
        skip(exit) == [op |-> "register", exit |-> exit, ops |-> <<>>,
                       keys |-> keys, store |-> s]
    IN  IF DevelopmentSkip(in) THEN skip("skip_development")
        ELSE IF Falsy(traefik_config(in)) THEN skip("no_traefik_config")
        ELSE IF Falsy(redis_config(in)) THEN skip("no_redis_config")
        ELSE LET w == DoWrites(RouteWrites(in), 1, failAt, s, <<OpenStore(in)>>)
             IN  [op |-> "register",
                  exit |-> IF w.raised THEN "raised" ELSE "returned",
                  ops |-> w.ops,
                  keys |-> KeysAfterWrites(keys, in, w.raised),
                  store |-> w.store]

---------------------------------------------------------------------------
(* unregister_traefik_route *)

\* Variant of Drain: pop(0), the first key, instead of pop().
RECURSIVE DrainFromFront(_, _, _, _, _)
DrainFromFront(keys, n, failAt, s, ops) ==
    IF keys = <<>> THEN [keys |-> keys, store |-> s, ops |-> ops, raised |-> FALSE]
    ELSE LET key == keys[1]
             rest == SubSeq(keys, 2, Len(keys))
         IN  IF n = failAt
             THEN [keys |-> rest, store |-> s,
                   ops |-> Append(ops, Cmd("delete", key, <<>>, FALSE)),
                   raised |-> TRUE]
             ELSE DrainFromFront(rest, n + 1, failAt, StoreDelete(s, key),
                                 Append(ops, Cmd("delete", key, <<>>, TRUE)))

\* Lines 110-112: pop the last key and delete it, until the list is empty;
\* the failAt-th store.delete raises (0: none raises) and ends the loop.
RECURSIVE Drain(_, _, _, _, _)
Drain(keys, n, failAt, s, ops) ==
    IF keys = <<>> THEN [keys |-> keys, store |-> s, ops |-> ops, raised |-> FALSE]
    ELSE LET key == keys[Len(keys)]
             rest == SubSeq(keys, 1, Len(keys) - 1)
         IN  IF n = failAt
             THEN [keys |-> rest, store |-> s,
                   ops |-> Append(ops, Cmd("delete", key, <<>>, FALSE)),
                   raised |-> TRUE]
             ELSE Drain(rest, n + 1, failAt, StoreDelete(s, key),
                        Append(ops, Cmd("delete", key, <<>>, TRUE)))

\* Variant of KeysToDrain: the keys computed again from the configuration.
KeysFromConfig(in, keys) == RouteKeys(in)

\* Line 110: the loop reads the keys from context.traefik_redis_keys alone.
KeysToDrain(in, keys) == keys

\* The whole of unregister_traefik_route(context).
UnregisterResult(in, keys, s, failAt) ==
    LET skip(exit) == [op |-> "unregister", exit |-> exit, ops |-> <<>>,
                       keys |-> keys, store |-> s]
    IN  IF DevelopmentSkip(in) THEN skip("skip_development")
        ELSE IF Falsy(traefik_config(in)) THEN skip("no_traefik_config")
        ELSE IF Falsy(redis_config(in)) THEN skip("no_redis_config")
        ELSE LET d == Drain(KeysToDrain(in, keys), 1, failAt, s, <<OpenStore(in)>>)
             IN  [op |-> "unregister",
                  exit |-> IF d.raised THEN "raised" ELSE "returned",
                  ops |-> d.ops,
                  keys |-> d.keys,
                  store |-> d.store]

\* Whether a call with these inputs gets past its three guards.
MainPath(in) ==
    /\ ~DevelopmentSkip(in)
    /\ ~Falsy(traefik_config(in))
    /\ ~Falsy(redis_config(in))

---------------------------------------------------------------------------
(* State *)

NoCall == [op |-> "none", exit |-> "none", ops |-> <<>>, in |-> <<>>,
           keys0 |-> <<>>, store0 |-> EmptyStore]

\* The observation of a call: its inputs, the key list and store it started
\* from, how it ended and the KV commands it issued.
Observe(in, r) ==
    [op |-> r.op, exit |-> r.exit, ops |-> r.ops, in |-> in,
     keys0 |-> context.traefik_redis_keys, store0 |-> store]

ContextOf(in, keys) ==
    [debug |-> in.debug, settings |-> in.settings, node_name |-> in.node_name,
     traefik_redis_keys |-> keys]

Finish(in, r) ==
    /\ context' = ContextOf(in, r.keys)
    /\ environ' = in.env
    /\ store' = r.store
    /\ prev' = last
    /\ last' = Observe(in, r)
    /\ ncalls' = ncalls + 1

Init ==
    /\ \E in \in Inputs :
        /\ context = ContextOf(in, <<>>)
        /\ environ = in.env
    /\ store = EmptyStore
    /\ last = NoCall
    /\ prev = NoCall
    /\ ncalls = 0
    /\ pc = "api"
    /\ trace = <<>>

\* register_traefik_route(context), called with any context and environment
Register ==
    /\ pc = "api"
    /\ ncalls < MaxCalls
    /\ \E in \in Inputs, failAt \in 0..4 :
        /\ failAt # 0 => MainPath(in)
        /\ Finish(in, RegisterResult(in, context.traefik_redis_keys, store, failAt))
    /\ UNCHANGED <<pc, trace>>

\* unregister_traefik_route(context); context.traefik_redis_keys exists only
\* once register_traefik_route has run
Unregister ==
    /\ pc = "api"
    /\ ncalls < MaxCalls
    /\ last.op # "none"
    /\ \E in \in Inputs, failAt \in 0..Len(context.traefik_redis_keys) :
        /\ failAt # 0 => MainPath(in)
        /\ Finish(in, UnregisterResult(in, context.traefik_redis_keys, store, failAt))
    /\ UNCHANGED <<pc, trace>>

Next == Register \/ Unregister

Spec == Init /\ [][Next]_vars

---------------------------------------------------------------------------
(* main(): lines 113-127 of pylon/main.py *)

\* What the registrar reads from the context main() built (lines 72-82).
Current ==
    [debug |-> context.debug, settings |-> context.settings,
     node_name |-> context.node_name, env |-> environ]

InitMain ==
    /\ \E in \in Inputs :
        /\ context = ContextOf(in, <<>>)
        /\ environ = in.env
    /\ store = EmptyStore
    /\ last = NoCall
    /\ prev = NoCall
    /\ ncalls = 0
    /\ pc = "init_modules"
    /\ trace = <<>>

\* Line 114
MainInitModules ==
    /\ pc = "init_modules"
    /\ pc' = "register"
    /\ trace' = Append(trace, "init_modules")
    /\ UNCHANGED <<context, environ, store, last, prev, ncalls>>

\* Line 116: an exception of register_traefik_route leaves main(); the try
\* block has not been entered.
MainRegister ==
    /\ pc = "register"
    /\ \E failAt \in 0..4 :
        /\ failAt # 0 => MainPath(Current)
        /\ LET r == RegisterResult(Current, context.traefik_redis_keys, store, failAt)
           IN  /\ Finish(Current, r)
               /\ pc' = IF r.exit = "raised" THEN "raised" ELSE "run_server"
    /\ trace' = Append(trace, "register")

\* Variant of MainRunServer: no finally block, so an exception of run_server
\* leaves main() at once.
MainRunServerNoFinally ==
    /\ pc = "run_server"
    /\ \E outcome \in {"run_server", "run_server raised"} :
        /\ trace' = Append(trace, outcome)
        /\ pc' = IF outcome = "run_server" THEN "unregister" ELSE "raised"
    /\ UNCHANGED <<context, environ, store, last, prev, ncalls>>

\* Lines 118-121: run_server returns or raises; the finally block runs next.
MainRunServer ==
    /\ pc = "run_server"
    /\ \E outcome \in {"run_server", "run_server raised"} :
        trace' = Append(trace, outcome)
    /\ pc' = "unregister"
    /\ UNCHANGED <<context, environ, store, last, prev, ncalls>>

\* Line 123: an exception of unregister_traefik_route leaves the finally
\* block, and main() with it.
MainUnregister ==
    /\ pc = "unregister"
    /\ \E failAt \in 0..Len(context.traefik_redis_keys) :
        /\ failAt # 0 => MainPath(Current)
        /\ LET r == UnregisterResult(Current, context.traefik_redis_keys, store, failAt)
           IN  /\ Finish(Current, r)
               /\ pc' = IF r.exit = "raised" THEN "raised" ELSE "deinit_modules"
    /\ trace' = Append(trace, "unregister")

\* Line 125; the exception of run_server, if any, is raised again after it.
MainDeinitModules ==
    /\ pc = "deinit_modules"
    /\ pc' = IF \E i \in 1..Len(trace) : trace[i] = "run_server raised"
             THEN "raised" ELSE "exiting"
    /\ trace' = Append(trace, "deinit_modules")
    /\ UNCHANGED <<context, environ, store, last, prev, ncalls>>

\* Line 127
MainExit ==
    /\ pc = "exiting"
    /\ pc' = "done"
    /\ trace' = Append(trace, "exit")
    /\ UNCHANGED <<context, environ, store, last, prev, ncalls>>

NextMain ==
    \/ MainInitModules
    \/ MainRegister
    \/ MainRunServer
    \/ MainUnregister
    \/ MainDeinitModules
    \/ MainExit

SpecMain == InitMain /\ [][NextMain]_vars

---------------------------------------------------------------------------
(* One Register and one Unregister on a context drawn from every combination
   of the optional entries that Register reads *)

WideSettings ==
    [traefik :
        { Some(t) : t \in
            [redis : {Some(RedisAt(Str("redis")))},
             rootkey : {None, Some(Str("t2"))},
             rule : {None, Some(Str("Host(pylon)"))},
             entrypoint : {None, Some(Str("websecure"))},
             node_url : {None, Some(Str("https://pylon.example/"))},
             node_hostname : {None, Some(Str("pylon.example"))}] },
     server :
        {None} \cup
        { Some(sv) : sv \in [port : {None, Some(Str("8080"))},
                             name : {None, Some(Str("n1"))}] }]

WideInputs ==
    { [debug |-> d, settings |-> s, node_name |-> NodeName(s), env |-> e] :
        d \in BOOLEAN, s \in WideSettings, e \in Environs }

InitWide ==
    /\ \E in \in WideInputs :
        /\ context = ContextOf(in, <<>>)
        /\ environ = in.env
    /\ store = EmptyStore
    /\ last = NoCall
    /\ prev = NoCall
    /\ ncalls = 0
    /\ pc = "api"
    /\ trace = <<>>

\* register_traefik_route(context) on the context as it is
RegisterCurrent ==
    /\ pc = "api"
    /\ last.op = "none"
    /\ \E failAt \in 0..4 :
        /\ failAt # 0 => MainPath(Current)
        /\ Finish(Current, RegisterResult(Current, context.traefik_redis_keys, store, failAt))
    /\ UNCHANGED <<pc, trace>>

\* unregister_traefik_route(context) on the context as it is
UnregisterCurrent ==
    /\ pc = "api"
    /\ last.op = "register"
    /\ \E failAt \in 0..Len(context.traefik_redis_keys) :
        /\ failAt # 0 => MainPath(Current)
        /\ Finish(Current, UnregisterResult(Current, context.traefik_redis_keys, store, failAt))
    /\ UNCHANGED <<pc, trace>>

NextWide == RegisterCurrent \/ UnregisterCurrent

SpecWide == InitWide /\ [][NextWide]_vars

---------------------------------------------------------------------------
(* Reading an observation *)

IsSet(c) == c.cmd = "set"
IsDelete(c) == c.cmd = "delete"
IsOkSet(c) == c.cmd = "set" /\ c.ok
IsOkDelete(c) == c.cmd = "delete" /\ c.ok

KeysOf(cmds) == [i \in 1..Len(cmds) |-> cmds[i].key]
Range(f) == { f[i] : i \in DOMAIN f }
Reverse(q) == [i \in 1..Len(q) |-> q[Len(q) + 1 - i]]
NoDuplicate(q) == \A i, j \in 1..Len(q) : q[i] = q[j] => i = j

\* the keys whose store.set returned, in order
WrittenSeq(o) == KeysOf(SelectSeq(o.ops, IsOkSet))
Written(o) == Range(WrittenSeq(o))
\* the keys whose store.delete returned
Deleted(o) == Range(KeysOf(SelectSeq(o.ops, IsOkDelete)))
\* the keys for which store.delete was called, in order
DeleteCalls(o) == KeysOf(SelectSeq(o.ops, IsDelete))
FailedDelete(o) == \E i \in 1..Len(o.ops) : IsDelete(o.ops[i]) /\ ~o.ops[i].ok

\* the proxy section, or the KV section inside it, is empty or absent
SectionMissing(in) ==
    \/ in.settings.traefik \in {None, Some(EmptyTraefik)}
    \/ Val(in.settings.traefik).redis \in {None, Some(EmptyRedis)}

\* the proxy section and the KV section inside it are both present
SectionsPresent(in) == ~SectionMissing(in)

\* the last token of a key
Leaf(k) == k[Len(k)]

---------------------------------------------------------------------------
(* Claims *)

\* C1 (symmetry): when Register returns with both sections present and the
\* next call is an Unregister that returns with both sections present, no
\* KV command having failed, the keys Register wrote are exactly the keys
\* Unregister deleted, they are four, and none of them is in the store
\* afterwards; when both calls are skipped in development mode, Register
\* wrote nothing and Unregister deleted nothing.
C1_Symmetry ==
    /\ (/\ prev.op = "register" /\ prev.exit = "returned"
        /\ last.op = "unregister" /\ last.exit = "returned")
       => /\ Written(prev) = Deleted(last)
          /\ Cardinality(Written(prev)) = 4
          /\ \A k \in Written(prev) : k \notin DOMAIN store
    /\ (/\ prev.op = "register" /\ prev.exit = "skip_development"
        /\ last.op = "unregister" /\ last.exit = "skip_development")
       => Written(prev) = {} /\ Deleted(last) = {}

C1_Witness ==
    /\ prev.op = "register" /\ prev.exit = "returned"
    /\ SectionsPresent(prev.in)
    /\ last.op = "unregister" /\ last.exit = "returned"
    /\ SectionsPresent(last.in)
    /\ Cardinality(Deleted(last)) = 4
    /\ prev.store0 = EmptyStore /\ store = EmptyStore

\* C2 (partial-failure cleanup): when the k-th write of Register raises, the
\* Registered Key Set holds exactly the k-1 keys already written, and an
\* Unregister that follows and returns deletes exactly those keys.
C2_PartialFailureRecorded ==
    /\ (last.op = "register" /\ last.exit = "raised")
       => context.traefik_redis_keys = WrittenSeq(last)
    /\ (/\ prev.op = "register" /\ prev.exit = "raised"
        /\ last.op = "unregister" /\ last.exit = "returned")
       => Deleted(last) = Written(prev)

\* C3: after every call of Unregister, however it ended, the Registered Key
\* Set is empty.
C3_EmptyAfterUnregister ==
    last.op = "unregister" => context.traefik_redis_keys = <<>>

\* C4: after Register returns from its main path, the Registered Key Set is
\* the sequence of the keys of the four writes of that call, in write order:
\* router rule, router entrypoints/0, router service, service server url;
\* it has four elements and no duplicate.
C4_KeysInWriteOrder ==
    (last.op = "register" /\ last.exit = "returned")
    => /\ context.traefik_redis_keys = KeysOf(SelectSeq(last.ops, IsSet))
       /\ Len(context.traefik_redis_keys) = 4
       /\ NoDuplicate(context.traefik_redis_keys)
       /\ Leaf(context.traefik_redis_keys[1]) = "/rule"
       /\ Leaf(context.traefik_redis_keys[2]) = "/entrypoints/0"
       /\ Leaf(context.traefik_redis_keys[3]) = "/service"
       /\ Leaf(context.traefik_redis_keys[4]) = "/loadbalancer/servers/0/url"

C4_Witness ==
    /\ last.op = "register" /\ last.exit = "returned"
    /\ last.keys0 # <<>>
    /\ last.keys0 # context.traefik_redis_keys
    /\ Len(context.traefik_redis_keys) = 4

\* C5: in the loop of Unregister every key that was in the Registered Key
\* Set when the loop started gets exactly one delete call, those after a
\* key whose delete failed included.
C5_DrainContinues ==
    (last.op = "unregister" /\ last.exit \in {"returned", "raised"})
    => DeleteCalls(last) = Reverse(last.keys0)

\* C6: a failed delete is not surfaced: Unregister returns normally, and
\* main() goes on to deinit_modules.
C6_FailureNotSurfaced ==
    (last.op = "unregister" /\ FailedDelete(last))
    => /\ last.exit = "returned"
       /\ pc = "deinit_modules" \/ \E i \in 1..Len(trace) : trace[i] = "deinit_modules"

\* C7 (idempotent overwrite): when Register returns and is called again with
\* the same configuration and node name and returns again, the store is as
\* the first call left it, it maps the four keys to the values the first
\* call wrote, and the Registered Key Set is the same four keys, none twice.
C7_IdempotentOverwrite ==
    (/\ prev.op = "register" /\ prev.exit = "returned"
     /\ last.op = "register" /\ last.exit = "returned"
     /\ last.in.settings = prev.in.settings
     /\ last.in.node_name = prev.in.node_name)
    => /\ store = last.store0
       /\ \A i \in 1..Len(prev.ops) :
            IsSet(prev.ops[i]) =>
                /\ prev.ops[i].key \in DOMAIN store
                /\ store[prev.ops[i].key] = prev.ops[i].value
       /\ context.traefik_redis_keys = last.keys0
       /\ Len(context.traefik_redis_keys) = 4
       /\ NoDuplicate(context.traefik_redis_keys)

C7_Witness ==
    /\ prev.op = "register" /\ prev.exit = "returned"
    /\ last.op = "register" /\ last.exit = "returned"
    /\ last.in.settings = prev.in.settings
    /\ last.in.node_name = prev.in.node_name
    /\ Cardinality(DOMAIN store) = 4

\* C8: Unregister takes its keys from the Registered Key Set alone.  When
\* Register returned and the root key or the node name is different at the
\* following Unregister, both sections being present, every delete call is
\* for a key Register recorded and none is for another key of the new
\* configuration; when that Unregister returns, it has deleted exactly the
\* recorded keys and none of the keys Register wrote is left in the store.
C8_KeysFromRecordOnly ==
    (/\ prev.op = "register" /\ prev.exit = "returned"
     /\ last.op = "unregister" /\ last.exit \in {"returned", "raised"}
     /\ \/ traefik_rootkey(last.in) # traefik_rootkey(prev.in)
        \/ last.in.node_name # prev.in.node_name)
    => /\ Range(DeleteCalls(last)) \subseteq Range(last.keys0)
       /\ Range(last.keys0) = Written(prev)
       /\ \A k \in Range(RouteKeys(last.in)) \ Range(last.keys0) :
            k \notin Range(DeleteCalls(last))
       /\ last.exit = "returned"
          => /\ Deleted(last) = Range(last.keys0)
             /\ \A k \in Written(prev) : k \notin DOMAIN store

C8_Witness ==
    /\ prev.op = "register" /\ prev.exit = "returned"
    /\ last.op = "unregister" /\ last.exit = "returned"
    /\ traefik_rootkey(last.in) # traefik_rootkey(prev.in)
    /\ last.in.node_name # prev.in.node_name
    /\ Range(RouteKeys(last.in)) \cap Range(last.keys0) = {}
    /\ Cardinality(Deleted(last)) = 4

\* C9 (missing-config no-op): when the proxy section or the KV section in it
\* is empty or absent, Register calls store.set not once, leaves the store
\* as it was, and leaves the Registered Key Set empty whatever it held.
C9_MissingConfigNoOp ==
    (last.op = "register" /\ SectionMissing(last.in))
    => /\ SelectSeq(last.ops, IsSet) = <<>>
       /\ store = last.store0
       /\ context.traefik_redis_keys = <<>>

C9_Witness ==
    /\ last.op = "register"
    /\ ~last.in.debug
    /\ ~SectionsPresent(last.in)
    /\ Len(last.keys0) = 4
    /\ context.traefik_redis_keys = <<>>

\* C10 (development-mode short-circuit): with the debug flag set and
\* WERKZEUG_RUN_MAIN not "true", neither Register nor Unregister issues a
\* KV operation (no client built, no set, no delete), and the store is as
\* it was, for every configuration and Registered Key Set.
C10_DevelopmentNoKV ==
    (/\ last.op \in {"register", "unregister"}
     /\ last.in.debug
     /\ last.in.env # Some(Str("true")))
    => last.ops = <<>> /\ store = last.store0

C10_Witness ==
    /\ last.op = "unregister"
    /\ last.in.debug /\ last.in.env # Some(Str("true"))
    /\ SectionsPresent(last.in)
    /\ Len(last.keys0) = 4
    /\ prev.op = "register" /\ prev.in.debug


\* C11: when the proxy section or the KV section is missing at the time of
\* the call, Unregister issues no delete (no KV command at all) and leaves
\* the store and the Registered Key Set as they were, the same keys in the
\* same order.
C11_MissingConfigUntouched ==
    (last.op = "unregister" /\ SectionMissing(last.in))
    => /\ last.ops = <<>>
       /\ store = last.store0
       /\ context.traefik_redis_keys = last.keys0

C11_Witness ==
    /\ last.op = "unregister"
    /\ ~last.in.debug
    /\ SectionMissing(last.in)
    /\ Len(last.keys0) = 4
    /\ context.traefik_redis_keys = last.keys0
    /\ Cardinality(DOMAIN store) = 4


IsPrefix(p, q) == Len(p) <= Len(q) /\ \A i \in 1..Len(p) : p[i] = q[i]

\* the steps of main() from line 114 on, run_server having ended as rs
Lifecycle(rs) ==
    <<"init_modules", "register", rs, "unregister", "deinit_modules", "exit">>

\* C12 (lifecycle order of main()): the steps executed are always a prefix
\* of init_modules, register, run_server, unregister, deinit_modules, exit,
\* so Register is called at most once, after init_modules and before
\* run_server, and Unregister at most once, after run_server and before
\* deinit_modules; main() does not end without having called Register, nor,
\* once run_server has ended, returning or raising, without having called
\* Unregister; and Unregister is called only after Register was called and
\* returned.
C12_LifecycleOrder ==
    /\ \E rs \in {"run_server", "run_server raised"} : IsPrefix(trace, Lifecycle(rs))
    /\ pc \in {"done", "raised"} => Len(trace) >= 2
    /\ (pc \in {"done", "raised"} /\ Len(trace) >= 3) => Len(trace) >= 4
    /\ Len(trace) >= 4
       => /\ last.op = "unregister"
          /\ prev.op = "register"
          /\ prev.exit # "raised"
          /\ ncalls = 2
    /\ Len(trace) \in {2, 3} => last.op = "register" /\ ncalls = 1
    /\ Len(trace) < 2 => last.op = "none" /\ ncalls = 0

C12_Witness ==
    /\ pc = "raised"
    /\ trace = <<"init_modules", "register", "run_server raised",
                 "unregister", "deinit_modules">>
    /\ last.op = "unregister" /\ last.exit = "returned"
    /\ Cardinality(Deleted(last)) = 4


\* C13 (key layout and values): after Register returns from its main path
\* with root key R, node name N, rule, entrypoint and resolved url U, the
\* store maps R/http/routers/N/rule to the rule, R/http/routers/N/entrypoints/0
\* to the entrypoint, R/http/routers/N/service to N and
\* R/http/services/N/loadbalancer/servers/0/url to U; these four are the
\* only keys Register wrote and every other key of the store is as it was.
C13_KeyLayout ==
    (last.op = "register" /\ last.exit = "returned")
    => LET R == traefik_rootkey(last.in)
           N == last.in.node_name
           rule == R \o <<"/http/routers/">> \o N \o <<"/rule">>
           entrypoint == R \o <<"/http/routers/">> \o N \o <<"/entrypoints/0">>
           service == R \o <<"/http/routers/">> \o N \o <<"/service">>
           url == R \o <<"/http/services/">> \o N \o <<"/loadbalancer/servers/0/url">>
       IN  /\ {rule, entrypoint, service, url} \subseteq DOMAIN store
           /\ store[rule] = traefik_rule(last.in)
           /\ store[entrypoint] = traefik_entrypoint(last.in)
           /\ store[service] = N
           /\ store[url] = node_url(last.in)
           /\ Written(last) = {rule, entrypoint, service, url}
           /\ Len(SelectSeq(last.ops, IsSet)) = 4
           /\ DOMAIN store = DOMAIN last.store0 \cup {rule, entrypoint, service, url}
           /\ \A k \in DOMAIN last.store0 \ {rule, entrypoint, service, url} :
                store[k] = last.store0[k]

C13_Witness ==
    /\ last.op = "register" /\ last.exit = "returned"
    /\ traefik_config(last.in).rootkey = Some(Str("t2"))
    /\ traefik_config(last.in).rule # None
    /\ traefik_config(last.in).entrypoint # None
    /\ last.in.node_name = Str("n1")
    /\ store[<<"t2", "/http/routers/", "n1", "/service">>] = <<"n1">>
    /\ store[<<"t2", "/http/routers/", "n1", "/rule">>] = <<"Host(pylon)">>

\* C14 (url precedence): the value Register writes under the service server
\* url key is node_url verbatim whenever node_url is in the proxy config,
\* whatever node_hostname and the port are; otherwise http://node_hostname:port
\* when node_hostname is in it; otherwise http://<local machine hostname>:port.
C14_UrlPrecedence ==
    (last.op = "register" /\ last.exit = "returned")
    => LET t == Val(last.in.settings.traefik)
           port == local_port(last.in)
           value == store[context.traefik_redis_keys[4]]
       IN  /\ t.node_url # None => value = Val(t.node_url)
           /\ (t.node_url = None /\ t.node_hostname # None)
              => value = <<"http://">> \o Val(t.node_hostname) \o <<":">> \o port
           /\ (t.node_url = None /\ t.node_hostname = None)
              => value = <<"http://">> \o gethostname \o <<":">> \o port

C14_Witness ==
    /\ last.op = "register" /\ last.exit = "returned"
    /\ Val(last.in.settings.traefik).node_url # None
    /\ Val(last.in.settings.traefik).node_hostname # None
    /\ last.in.settings.server # None
    /\ Val(last.in.settings.server).port # None
    /\ store[context.traefik_redis_keys[4]] = <<"https://pylon.example/">>


FailedSet(o) == \E i \in 1..Len(o.ops) : IsSet(o.ops[i]) /\ ~o.ops[i].ok

\* C15: a store.set that fails in Register makes register_traefik_route
\* raise: the failed command is the last one the call issues, and in main()
\* the exception leaves main().  There is no rollback: the call issues no
\* delete, and every key whose write returned before the failure is in the
\* store with the value written when Register raises.
C15_FailurePropagatesNoRollback ==
    (last.op = "register" /\ FailedSet(last))
    => /\ last.exit = "raised"
       /\ ~last.ops[Len(last.ops)].ok
       /\ \A i \in 1..(Len(last.ops) - 1) : last.ops[i].ok
       /\ SelectSeq(last.ops, IsDelete) = <<>>
       /\ \A i \in 1..Len(last.ops) :
            IsOkSet(last.ops[i]) =>
                /\ last.ops[i].key \in DOMAIN store
                /\ store[last.ops[i].key] = last.ops[i].value
       /\ pc \in {"api", "raised"}

C15_Witness ==
    /\ last.op = "register" /\ last.exit = "raised"
    /\ last.store0 = EmptyStore
    /\ Cardinality(Written(last)) = 3
    /\ DOMAIN store = Written(last)


\* C16: when Unregister runs its loop and no delete fails, it issues one
\* delete per recorded key, in the reverse of the recorded order, and as
\* many deletes as the Registered Key Set held at the start; after a
\* Register that returned, the service server url key is deleted first and
\* the router rule key last.
C16_ReverseOrderDeletes ==
    (last.op = "unregister" /\ last.exit = "returned")
    => /\ Len(DeleteCalls(last)) = Len(last.keys0)
       /\ \A i \in 1..Len(last.keys0) :
            DeleteCalls(last)[i] = last.keys0[Len(last.keys0) + 1 - i]
       /\ \A i \in 1..Len(last.ops) : last.ops[i].ok
       /\ (prev.op = "register" /\ prev.exit = "returned")
          => /\ Len(DeleteCalls(last)) = 4
             /\ Leaf(DeleteCalls(last)[1]) = "/loadbalancer/servers/0/url"
             /\ Leaf(DeleteCalls(last)[2]) = "/service"
             /\ Leaf(DeleteCalls(last)[3]) = "/entrypoints/0"
             /\ Leaf(DeleteCalls(last)[4]) = "/rule"

C16_Witness ==
    /\ last.op = "unregister" /\ last.exit = "returned"
    /\ prev.op = "register" /\ prev.exit = "returned"
    /\ Len(DeleteCalls(last)) = 4
    /\ DeleteCalls(last)[1] = prev.ops[Len(prev.ops)].key
    /\ DeleteCalls(last)[4] = prev.ops[2].key

\* C17: Unregister with an empty Registered Key Set and all guards passed is
\* a no-op: it returns having issued no delete, the store is as it was and
\* the set is still empty.
C17_UnregisterEmptyNoOp ==
    (/\ last.op = "unregister"
     /\ last.keys0 = <<>>
     /\ SectionsPresent(last.in)
     /\ ~(last.in.debug /\ last.in.env # Some(Str("true"))))
    => /\ last.exit = "returned"
       /\ DeleteCalls(last) = <<>>
       /\ store = last.store0
       /\ context.traefik_redis_keys = <<>>

C17_Witness ==
    /\ last.op = "unregister" /\ last.exit = "returned"
    /\ last.keys0 = <<>>
    /\ prev.op = "register" /\ prev.exit = "raised"
    /\ Range(RouteKeys(last.in)) \cap DOMAIN store # {}
    /\ store = last.store0

\* C18: Register empties the Registered Key Set before it evaluates a guard:
\* after any call of Register, skipped, failed or successful, every key in
\* the set was written by that call, no key occurs twice, and a call that
\* wrote nothing leaves the set empty whatever an earlier call recorded.
C18_ResetOnEveryRegister ==
    last.op = "register"
    => /\ Range(context.traefik_redis_keys) \subseteq Written(last)
       /\ NoDuplicate(context.traefik_redis_keys)
       /\ Written(last) = {} => context.traefik_redis_keys = <<>>
       /\ last.exit # "returned" => context.traefik_redis_keys = <<>>

C18_Witness ==
    /\ last.op = "register" /\ last.exit = "skip_development"
    /\ prev.op = "register" /\ prev.exit = "returned"
    /\ Len(last.keys0) = 4
    /\ context.traefik_redis_keys = <<>>

\* C19: whenever Register has returned or raised, the Registered Key Set
\* holds no key or all four keys, never some of them only, and the write of
\* every key in it was completed by that call.
C19_AllOrNothing ==
    last.op = "register"
    => /\ Len(context.traefik_redis_keys) \in {0, 4}
       /\ Cardinality(Range(context.traefik_redis_keys)) = Len(context.traefik_redis_keys)
       /\ \A i \in 1..Len(context.traefik_redis_keys) :
            \E j \in 1..Len(last.ops) :
                /\ IsOkSet(last.ops[j])
                /\ last.ops[j].key = context.traefik_redis_keys[i]
                /\ context.traefik_redis_keys[i] \in DOMAIN store

C19_Witness ==
    /\ last.op = "register" /\ last.exit = "raised"
    /\ Cardinality(Written(last)) \in {1, 2, 3}
    /\ context.traefik_redis_keys = <<>>
    /\ Written(last) \subseteq DOMAIN store

===========================================================================
